---- MODULE Spec2Model ----
(***************************************************************************)
(* A model of the lox front end: the Scanner (scanner.rs), the Span model  *)
(* (span.rs) and the recursive-descent Parser (parser.rs).                 *)
(*                                                                         *)
(* A source text is a sequence of characters, each a one-character string. *)
(* Offsets are byte offsets, as in the code; Width gives the UTF-8 width   *)
(* of a character.  A Span is the pair <<start, end>> of struct Span.      *)
(***************************************************************************)
EXTENDS Integers, Sequences, FiniteSets, TLC

VARIABLES
    scanner,    \* the Scanner: its Cursor and its `start` field
    out,        \* the elements Scanner::next has yielded so far
    noneCalls,  \* how many times Scanner::next has returned None
    parser,     \* the Parser struct: source, tokens, prev, cursor
    diags,      \* the diagnostics printed so far (Diagnostic::err)
    result,     \* what Parser::parse returned
    spanCall,   \* a call of a Span method: its arguments and what it returned
    pc          \* where the run stands

vars == <<scanner, out, noneCalls, parser, diags, result, spanCall, pc>>

(***************************************************************************)
(* Bounds of the model.                                                    *)
(***************************************************************************)
MaxSrcLen == 4
MaxNumLen == 6
MaxNoneCalls == 2
MaxTokens == 4
MaxExprLen == 5
MaxOps == 2
MaxUnaryOps == 6
MaxIdentLen == 4
MaxOffset == 3
MaxLocLen == 3
MaxWindow == 1
MaxOpLen == 3

(***************************************************************************)
(* Characters.                                                             *)
(***************************************************************************)
NoChar == "none"

Digits == {"0", "1", "2", "3", "4", "5", "6", "7", "8", "9"}

Letters ==
    {"a", "b", "c", "d", "e", "f", "g", "h", "i", "j", "k", "l", "m",
     "n", "o", "p", "q", "r", "s", "t", "u", "v", "w", "x", "y", "z",
     "A", "B", "C", "D", "E", "F", "G", "H", "I", "J", "K", "L", "M",
     "N", "O", "P", "Q", "R", "S", "T", "U", "V", "W", "X", "Y", "Z"}

IdentStart == Letters \cup {"_"}

IdentChars == Digits \cup Letters \cup {"_"}

NumberRunChars == Digits \cup {"."}

Spaces == {" ", "\t", "\r", "\n"}

\* Characters that are not ASCII take more than one byte of the source.
NonAscii == {"U+00E9"}

Width(c) == IF c \in NonAscii THEN 2 ELSE 1

\* The alphabets the sources of the model are drawn from.
SrcAlphabet == {"1", "a", " ", "\n", "/", "\"", "=", "!", "@", "U+00E9"}

NumAlphabet == {"1", ".", " "}

IdentAlphabet == {"f", "o", "r", "_", "1", " "}

OpAlphabet == {"!", "=", "<", ">"}

SeqsUpTo(S, n) == UNION {[1..k -> S] : k \in 0..n}

(***************************************************************************)
(* span.rs                                                                 *)
(***************************************************************************)
SpanFrom(a, b) == <<a, b>>

SpanDefault == <<0, 1>>

SpanJoin(a, b) == SpanFrom(a[1], b[2])

SpanLen(a) == a[2] - a[1]

\* The byte offset of the character after the first k characters of src.
RECURSIVE ByteOff(_, _)
ByteOff(src, k) == IF k = 0 THEN 0 ELSE ByteOff(src, k - 1) + Width(src[k])

\* source[..off], for an offset at a character boundary.
StrPrefix(source, off) ==
    SubSeq(source, 1, CHOOSE k \in 0..Len(source) : ByteOff(source, k) = off)

\* chars().rev().position(|c| c == '\n'): how many characters follow the
\* last newline of the text, or -1 for None.
RevPosition(text) ==
    LET nls == {i \in 1..Len(text) : text[i] = "\n"}
    IN  IF nls = {} THEN -1
        ELSE Len(text) - (CHOOSE i \in nls : \A j \in nls : j <= i)

SpanGetCol(span, source) ==
    LET pos == RevPosition(StrPrefix(source, span[1]))
    IN  (IF pos = -1 THEN span[1] ELSE pos) + 1

SpanGetLine(span, source) ==
    LET text == StrPrefix(source, span[1])
    IN  Cardinality({i \in 1..Len(text) : text[i] = "\n"}) + 1

SpanGetLineCol(span, source) ==
    [line |-> SpanGetLine(span, source), col |-> SpanGetCol(span, source)]

\* str::lines(): the text is split at each `\n`, a `\r` right before the
\* `\n` is dropped with it, and no line follows a final `\n`.
RECURSIVE StrLines(_)
StrLines(text) ==
    IF text = <<>> THEN <<>>
    ELSE LET nls == {i \in 1..Len(text) : text[i] = "\n"}
             nl == IF nls = {} THEN 0 ELSE CHOOSE i \in nls : \A j \in nls : i <= j
             line == SubSeq(text, 1, nl - 1)
         IN  IF nl = 0 THEN <<text>>
             ELSE <<IF line # <<>> /\ line[Len(line)] = "\r"
                        THEN SubSeq(line, 1, Len(line) - 1)
                        ELSE line>>
                  \o StrLines(SubSeq(text, nl + 1, Len(text)))

\* A window that leaves its last line out.
ContextWindowExclusive(lo, hi, line) == lo <= line /\ line < hi

\* (lo..=hi).contains(&line)
ContextWindow(lo, hi, line) == lo <= line /\ line <= hi

\* Span::get_context(source, range): range is the pair <<start, end>>.
SpanGetContext(span, source, range) ==
    LET reference == SpanGetLine(span, source)
        numbered == [i \in 1..Len(StrLines(source)) |->
                        [line |-> i, src |-> StrLines(source)[i]]]
    IN  SelectSeq(numbered,
                  LAMBDA c : ContextWindow(reference + range[1], reference + range[2],
                                           c.line))

(***************************************************************************)
(* diag.rs: Diagnostic::get_context.  A Context is a line of the source    *)
(* with its number and its highlight; the highlight None is the record     *)
(* with some = FALSE.  Span::get_start_location and get_end_location are   *)
(* the Location {line, col} of the start and of the end of the span, found *)
(* as get_line and get_col find them.                                      *)
(***************************************************************************)
GetStartLocation(span, source) ==
    [line |-> SpanGetLine(span, source), col |-> SpanGetCol(span, source)]

GetEndLocation(span, source) ==
    [line |-> SpanGetLine(<<span[2], span[2]>>, source),
     col |-> SpanGetCol(<<span[2], span[2]>>, source)]

\* str::len(): the length in bytes.
StrLen(text) == ByteOff(text, Len(text))

\* source[span.range()].chars().filter(|&c| c == '\n').count()
SpanLines(span, source) ==
    Cardinality({k \in 1..Len(source) :
                    /\ source[k] = "\n"
                    /\ span[1] <= ByteOff(source, k - 1)
                    /\ ByteOff(source, k) <= span[2]})

HighlightNone == [some |-> FALSE, start |-> 0, end |-> 0]

HighlightSome(start, end) == [some |-> TRUE, start |-> start, end |-> end]

\* left.min(src.len() - start)
HighlightLen(left, room) == IF left <= room THEN left ELSE room

ContextPush(c, rest) == [panicked |-> rest.panicked, ctx |-> <<c>> \o rest.ctx]

\* The loop over source.lines().enumerate(): line_num is the 1-based number
\* of the line, `left` what is left to highlight, d the values computed
\* before the loop.  src.len() - start below zero is an overflow panic.
RECURSIVE ContextLoop(_, _, _, _)
ContextLoop(lines, line_num, left, d) ==
    IF line_num > Len(lines) THEN [panicked |-> FALSE, ctx |-> <<>>]
    ELSE LET src == lines[line_num]
             start == IF line_num = d.start_line THEN d.start_col - 1 ELSE 0
             end == HighlightLen(left, StrLen(src) - start)
         IN  IF ~(d.context_start <= line_num /\ line_num <= d.context_end)
                 THEN ContextLoop(lines, line_num + 1, left, d)
             ELSE IF ~(d.start_line <= line_num /\ line_num <= d.end_line)
                 THEN ContextPush([source |-> src, line |-> line_num,
                                   highlight |-> HighlightNone],
                                  ContextLoop(lines, line_num + 1, left, d))
             ELSE IF StrLen(src) < start
                 THEN [panicked |-> TRUE, ctx |-> <<>>]
             ELSE ContextPush([source |-> src, line |-> line_num,
                               highlight |-> HighlightSome(start, start + end)],
                              ContextLoop(lines, line_num + 1, left - end, d))

\* Diagnostic::get_context(n) of a diagnostic on the span of the source: n
\* is the pair <<start, end>> with start <= 0 <= end.
DiagGetContext(span, source, n) ==
    LET n_lines == Cardinality({k \in 1..Len(source) : source[k] = "\n"}) + 1
        start == GetStartLocation(span, source)
        end_line == GetEndLocation(span, source).line
        d == [start_line |-> start.line,
              start_col |-> start.col,
              end_line |-> end_line,
              context_start |-> IF start.line >= -n[1] THEN start.line + n[1] ELSE 1,
              context_end |-> IF n_lines <= end_line + n[2]
                                  THEN n_lines ELSE end_line + n[2]]
    IN  ContextLoop(StrLines(source), 1, SpanLen(span) - SpanLines(span, source), d)

(***************************************************************************)
(* scanner.rs: the Cursor.  `idx` is the number of characters taken off    *)
(* the front of Cursor.source, `position` the byte count.  `panicked`      *)
(* records a slice of the source at an offset inside a character.          *)
(***************************************************************************)
ScannerNew(src) ==
    [orig |-> src, idx |-> 0, position |-> 0, prev |-> NoChar,
     curr |-> NoChar, start |-> 0, panicked |-> FALSE]

CursorPeekNth(s, nth) ==
    IF s.idx + nth + 1 <= Len(s.orig) THEN s.orig[s.idx + nth + 1] ELSE NoChar

CursorPeek(s) == CursorPeekNth(s, 0)

\* self.source = &self.source[1..]; self.position += 1
CursorSkipByte(s) ==
    IF Width(s.orig[s.idx + 1]) > 1
        THEN [s EXCEPT !.panicked = TRUE]
        ELSE [s EXCEPT !.idx = @ + 1, !.position = @ + 1]

CursorBump(s) ==
    IF s.idx < Len(s.orig)
        THEN CursorSkipByte([s EXCEPT !.prev = s.curr, !.curr = s.orig[s.idx + 1]])
        ELSE s

\* Cursor::next: the character taken, or NoChar, and the cursor after it.
CursorNext(s) ==
    IF s.idx < Len(s.orig)
        THEN [c |-> s.orig[s.idx + 1],
              s |-> CursorSkipByte([s EXCEPT !.prev = s.curr,
                                             !.curr = s.orig[s.idx + 1]])]
        ELSE [c |-> NoChar, s |-> [s EXCEPT !.prev = s.curr]]

(***************************************************************************)
(* scanner.rs: the token classes.                                          *)
(***************************************************************************)
RECURSIVE BumpWhile(_, _)
BumpWhile(s, chars) ==
    IF ~s.panicked /\ CursorPeek(s) \in chars
        THEN BumpWhile(CursorBump(s), chars)
        ELSE s

Tk(s, kind) == [s |-> s, ok |-> TRUE, kind |-> kind]

LexErr(s, kind) == [s |-> s, ok |-> FALSE, kind |-> kind]

\* A match that never looks at the character after.
OnMatchNoLookahead(s, char, matched, otherwise) == Tk(s, otherwise)

OnMatch(s, char, matched, otherwise) ==
    IF CursorPeek(s) = char
        THEN Tk(CursorBump(s), matched)
        ELSE Tk(s, otherwise)

ParseSpace(s) == Tk(BumpWhile(s, Spaces), "Whitespace")

\* The text of the source between two byte offsets (ASCII until there).
Slice(src, a, b) == SubSeq(src, a + 1, b)

Keywords ==
    [kw \in {<<"i", "f">>, <<"o", "r">>, <<"a", "n", "d">>, <<"f", "o", "r">>,
             <<"f", "u", "n">>, <<"v", "a", "r">>, <<"n", "i", "l">>,
             <<"e", "l", "s", "e">>, <<"t", "r", "u", "e">>,
             <<"t", "h", "i", "s">>, <<"c", "l", "a", "s", "s">>,
             <<"f", "a", "l", "s", "e">>, <<"p", "r", "i", "n", "t">>,
             <<"s", "u", "p", "e", "r">>, <<"w", "h", "i", "l", "e">>,
             <<"r", "e", "t", "u", "r", "n">>} |->
        CASE kw = <<"i", "f">> -> "If"
          [] kw = <<"o", "r">> -> "Or"
          [] kw = <<"a", "n", "d">> -> "And"
          [] kw = <<"f", "o", "r">> -> "For"
          [] kw = <<"f", "u", "n">> -> "Fun"
          [] kw = <<"v", "a", "r">> -> "Var"
          [] kw = <<"n", "i", "l">> -> "Nil"
          [] kw = <<"e", "l", "s", "e">> -> "Else"
          [] kw = <<"t", "r", "u", "e">> -> "True"
          [] kw = <<"t", "h", "i", "s">> -> "This"
          [] kw = <<"c", "l", "a", "s", "s">> -> "Class"
          [] kw = <<"f", "a", "l", "s", "e">> -> "False"
          [] kw = <<"p", "r", "i", "n", "t">> -> "Print"
          [] kw = <<"s", "u", "p", "e", "r">> -> "Super"
          [] kw = <<"w", "h", "i", "l", "e">> -> "While"
          [] kw = <<"r", "e", "t", "u", "r", "n">> -> "Return"]

\* A scanner that resolves the text from the start of the source.
ParseReservedFromOrigin(s) ==
    LET t == BumpWhile(s, IdentChars)
        text == Slice(t.orig, 0, t.position)
    IN  IF text \in DOMAIN Keywords
            THEN Tk(t, Keywords[text])
            ELSE Tk(t, "Identifier")

\* A scanner whose words are runs of letters only.
ParseReservedLetters(s) ==
    LET t == BumpWhile(s, Letters)
        text == Slice(t.orig, t.start, t.position)
    IN  IF text \in DOMAIN Keywords
            THEN Tk(t, Keywords[text])
            ELSE Tk(t, "Identifier")

\* parse_reserved().unwrap_or(Tk::Identifier)
ParseReserved(s) ==
    LET t == BumpWhile(s, IdentChars)
        text == Slice(t.orig, t.start, t.position)
    IN  IF text \in DOMAIN Keywords
            THEN Tk(t, Keywords[text])
            ELSE Tk(t, "Identifier")

\* A scanner that reports the malformed literal where it stands.
NumberResyncStopsShort(s) == LexErr(s, "InvalidNumber")

\* The malformed literal: the rest of the run of digits and dots is consumed.
NumberResync(s) == LexErr(BumpWhile(s, NumberRunChars), "InvalidNumber")

\* A scanner that takes a `.` into the literal whatever follows it.
NxtIsNumAlways(s) == TRUE

\* let nxt_is_num = || matches!(self.cursor.peek_nth(1), Some('0'..='9'))
NxtIsNum(s) == CursorPeekNth(s, 1) \in Digits

RECURSIVE ParseNumberLoop(_, _)
ParseNumberLoop(s, punto) ==
    LET c == CursorPeek(s)
        nxt_is_num == NxtIsNum(s)
    IN  IF s.panicked THEN Tk(s, "Number")
        ELSE IF c \in Digits THEN ParseNumberLoop(CursorBump(s), punto)
        ELSE IF c = "." /\ nxt_is_num /\ punto THEN NumberResync(s)
        ELSE IF c = "." /\ nxt_is_num /\ ~punto
            THEN ParseNumberLoop(CursorBump(s), TRUE)
        ELSE Tk(s, "Number")

ParseNumber(s) == ParseNumberLoop(s, FALSE)

RECURSIVE ParseString(_)
ParseString(s) ==
    LET c == CursorPeek(s)
    IN  IF s.panicked \/ c = NoChar THEN LexErr(s, "UnfinishedStr")
        ELSE IF c = "\"" THEN Tk(CursorBump(s), "String")
        ELSE IF c \in {"\n", "\r"} THEN LexErr(s, "UnfinishedStr")
        ELSE ParseString(CursorBump(s))

RECURSIVE CommentLoop(_)
CommentLoop(s) ==
    IF ~s.panicked /\ CursorPeek(s) \notin {"\n", NoChar}
        THEN CommentLoop(CursorBump(s))
        ELSE s

ParseSlash(s) ==
    IF CursorPeek(s) = "/"
        THEN Tk(CommentLoop(CursorBump(s)), "CommentLine")
        ELSE Tk(s, "Slash")

ParseNext(s, c) ==
    IF c \in IdentStart THEN ParseReserved(s)
    ELSE IF c \in Digits THEN ParseNumber(s)
    ELSE IF c \in Spaces THEN ParseSpace(s)
    ELSE CASE c = "(" -> Tk(s, "LeftParen")
           [] c = ")" -> Tk(s, "RightParen")
           [] c = "{" -> Tk(s, "LeftBrace")
           [] c = "}" -> Tk(s, "RightBrace")
           [] c = "," -> Tk(s, "Comma")
           [] c = "." -> Tk(s, "Dot")
           [] c = "-" -> Tk(s, "Minus")
           [] c = "+" -> Tk(s, "Plus")
           [] c = ";" -> Tk(s, "Semicolon")
           [] c = "*" -> Tk(s, "Star")
           [] c = "!" -> OnMatch(s, "=", "BangEqual", "Bang")
           [] c = "=" -> OnMatch(s, "=", "EqualEqual", "Equal")
           [] c = ">" -> OnMatch(s, "=", "GreaterEqual", "Greater")
           [] c = "<" -> OnMatch(s, "=", "LessEqual", "Less")
           [] c = "/" -> ParseSlash(s)
           [] c = "\"" -> ParseString(s)
           [] OTHER -> LexErr(s, "UnknownToken")

\* A scanner that forgets the character Cursor::next has already taken.
ScanStartAtCursor(s) == [s EXCEPT !.start = s.position]

\* self.start = self.cursor.position - 1
ScanStart(s) == [s EXCEPT !.start = s.position - 1]

\* Span::from(self.start..self.cursor.position)
ElementSpan(s) == SpanFrom(s.start, s.position)

\* Scanner::next: the scanner after the call and, when the call yields an
\* element (some), the element.  A call that panics yields nothing.
IteratorNext(s) ==
    LET n == CursorNext(s)
    IN  IF n.c = NoChar \/ n.s.panicked THEN [s |-> n.s, some |-> FALSE]
        ELSE LET r == ParseNext(ScanStart(n.s), n.c)
             IN  IF r.s.panicked THEN [s |-> r.s, some |-> FALSE]
                 ELSE [s |-> r.s, some |-> TRUE,
                       item |-> [ok |-> r.ok, kind |-> r.kind,
                                 span |-> ElementSpan(r.s)]]

(***************************************************************************)
(* main.rs: run() collects the scanner's output, dropping the Whitespace,  *)
(* CommentLine and Eof tokens, and parses only when no element is an       *)
(* error.                                                                  *)
(***************************************************************************)
RECURSIVE ScanAll(_)
ScanAll(s) ==
    LET r == IteratorNext(s)
    IN  IF r.some THEN <<r.item>> \o ScanAll(r.s) ELSE <<>>

Filtered == {"Eof", "Whitespace", "CommentLine"}

Collect(src) ==
    LET all == ScanAll(ScannerNew(src))
    IN  [errores |-> SelectSeq(all, LAMBDA e : ~e.ok),
         tokens |-> [i \in DOMAIN SelectSeq(all, LAMBDA e : e.ok /\ e.kind \notin Filtered) |->
                        LET e == SelectSeq(all, LAMBDA x : x.ok /\ x.kind \notin Filtered)[i]
                        IN  [tipo |-> e.kind, span |-> e.span]]]

(***************************************************************************)
(* parser.rs: the Parser struct and its cursor primitives.  The record     *)
(* carries, beside the fields of the struct, the diagnostics printed so    *)
(* far (diags), whether the code has panicked, and the history of the      *)
(* cursor: the values of cursor and prev after each bump (bumps).          *)
(***************************************************************************)
NoToken == [tipo |-> "NoToken", span |-> <<0, 0>>]

TokenDefault == [tipo |-> "Eof", span |-> SpanDefault]

ParserNew(tokens, source) ==
    [source |-> source, tokens |-> tokens, cursor |-> 0,
     prev |-> [tipo |-> "Eof", span |-> SpanFrom(0, 1)],
     panicked |-> FALSE, bumps |-> <<>>, diags |-> <<>>]

\* The fields of the struct alone, and the struct with what has been printed.
StructOf(p) ==
    [source |-> p.source, tokens |-> p.tokens, cursor |-> p.cursor,
     prev |-> p.prev, panicked |-> p.panicked, bumps |-> p.bumps]

Running(st, printed) ==
    [source |-> st.source, tokens |-> st.tokens, cursor |-> st.cursor,
     prev |-> st.prev, panicked |-> st.panicked, bumps |-> st.bumps,
     diags |-> printed]

\* A bump that moves the cursor and leaves prev as it was.
BumpStalePrev(p) ==
    IF p.cursor < Len(p.tokens)
        THEN [p EXCEPT !.cursor = @ + 1,
                       !.bumps = Append(@, [cursor |-> p.cursor + 1, prev |-> p.prev])]
        ELSE [p EXCEPT !.panicked = TRUE]

\* self.prev = self.tokens[self.cursor]; self.cursor += 1: the index is
\* checked, so a bump at the end of the slice panics.
Bump(p) ==
    IF p.cursor < Len(p.tokens)
        THEN [p EXCEPT !.prev = p.tokens[p.cursor + 1], !.cursor = @ + 1,
                       !.bumps = Append(@, [cursor |-> p.cursor + 1,
                                            prev |-> p.tokens[p.cursor + 1]])]
        ELSE [p EXCEPT !.panicked = TRUE]

RECURSIVE BumpN(_, _)
BumpN(p, n) == IF n = 0 THEN p ELSE BumpN(Bump(p), n - 1)

\* self.tokens.get(self.cursor + n - 1).copied()
LookupN(p, n) ==
    IF p.cursor + n - 1 < Len(p.tokens) THEN p.tokens[p.cursor + n] ELSE NoToken

Peek(p) == LookupN(p, 1)

\* The kinds of partial_next_chunk::<2>(): the default token where none is left.
PartialNextChunk(p) ==
    [i \in 1..2 |->
        IF p.cursor + i - 1 < Len(p.tokens)
            THEN p.tokens[p.cursor + i].tipo
            ELSE TokenDefault.tipo]

\* advance(): the token taken, or NoToken, and the parser after it.
Advance(p) ==
    IF p.cursor < Len(p.tokens)
        THEN [tok |-> p.tokens[p.cursor + 1], p |-> BumpN(p, 1)]
        ELSE [tok |-> NoToken, p |-> p]

Ok(p, expr) == [ok |-> TRUE, p |-> p, expr |-> expr]

Err(p, err) == [ok |-> FALSE, p |-> p, err |-> err]

NoError == [span |-> <<0, 0>>, kind |-> [tag |-> "None"]]

\* Diagnostic::new(source, ruta, span, msg).err()
Diag(p, span, msg, err) ==
    [p EXCEPT !.diags = Append(@, [span |-> span, msg |-> msg, err |-> err])]

UnexpectedTokenKind(expected, found) ==
    [tag |-> "UnexpectedTokenKind", because |-> "None",
     expected |-> expected, found |-> found]

(***************************************************************************)
(* Literal decoding.  str::parse::<f64> over a text of digits and dots: it *)
(* fails on a text with no digit or with more than one `.`; the value is   *)
(* the pair of the whole part and the fraction digits without trailing     *)
(* zeros.                                                                  *)
(***************************************************************************)
DigitValue(c) ==
    CASE c = "0" -> 0 [] c = "1" -> 1 [] c = "2" -> 2 [] c = "3" -> 3
      [] c = "4" -> 4 [] c = "5" -> 5 [] c = "6" -> 6 [] c = "7" -> 7
      [] c = "8" -> 8 [] c = "9" -> 9

RECURSIVE WholeValue(_)
WholeValue(text) ==
    IF text = <<>> THEN 0
    ELSE 10 * WholeValue(SubSeq(text, 1, Len(text) - 1)) + DigitValue(text[Len(text)])

RECURSIVE TrimZeros(_)
TrimZeros(text) ==
    IF text # <<>> /\ text[Len(text)] = "0"
        THEN TrimZeros(SubSeq(text, 1, Len(text) - 1))
        ELSE text

ParseF64(text) ==
    LET dots == {i \in 1..Len(text) : text[i] = "."}
        dot == IF dots = {} THEN Len(text) + 1 ELSE CHOOSE i \in dots : TRUE
    IN  IF \/ Cardinality(dots) > 1
           \/ Len(text) - Cardinality(dots) = 0
           \/ \E i \in 1..Len(text) : text[i] \notin NumberRunChars
            THEN [ok |-> FALSE]
            ELSE [ok |-> TRUE,
                  whole |-> WholeValue(SubSeq(text, 1, dot - 1)),
                  frac |-> TrimZeros(SubSeq(text, dot + 1, Len(text)))]

RECURSIVE TrimStart(_, _)
TrimStart(text, c) ==
    IF text # <<>> /\ text[1] = c THEN TrimStart(Tail(text), c) ELSE text

RECURSIVE TrimEnd(_, _)
TrimEnd(text, c) ==
    IF text # <<>> /\ text[Len(text)] = c
        THEN TrimEnd(SubSeq(text, 1, Len(text) - 1), c)
        ELSE text

TrimMatches(text, c) == TrimEnd(TrimStart(text, c), c)

Expression(span, item) == [span |-> span, item |-> item]

NumberItem(p, span) ==
    [tag |-> "Number", num |-> ParseF64(Slice(p.source, span[1], span[2]))]

StringItem(p, span) ==
    [tag |-> "String", text |-> TrimMatches(Slice(p.source, span[1], span[2]), "\"")]

UnaryItem(operand, kind) == [tag |-> "Unary", operand |-> operand, op |-> kind]

BinaryItem(lhs, rhs, kind) == [tag |-> "Binary", lhs |-> lhs, rhs |-> rhs, op |-> kind]

ExpectedAtEof == <<"Number", "True", "False", "String", "Nil", "LeftParen">>

ExpectedAtToken == <<"Number", "True", "False", "String", "Nil">>

(***************************************************************************)
(* parser.rs: the grammar levels.                                          *)
(***************************************************************************)
RECURSIVE Primary(_), Unary(_), UnaryPairs(_), Factor(_), FactorLoop(_, _),
          Term(_), TermLoop(_, _), Comparison(_), ComparisonLoop(_, _),
          EqualityLoop(_, _)

\* A parser for which a missing `)` is an error.
GroupCloseStrict(p, open, expr) ==
    LET token == IF Peek(p) = NoToken THEN open ELSE Peek(p)
    IN  IF token.tipo # "RightParen"
            THEN Err(p, [span |-> token.span,
                         kind |-> UnexpectedTokenKind(<<"RightParen">>, token.tipo)])
            ELSE Ok(p, expr)

\* The `(` arm of primary, after the inner expression has been parsed.
GroupClose(p, open, expr) ==
    LET token == IF Peek(p) = NoToken THEN open ELSE Peek(p)
    IN  IF token.tipo # "RightParen"
            THEN Ok(Diag(p, token.span, "Unclosed (", NoError), expr)
            ELSE Ok(p, expr)

\* The expression parsed inside a `(`.
GroupInner(p) == Comparison(p)

\* `let expr = self.comparison()?;` and what follows it in the `(` arm.
Group(r, open) == IF r.ok THEN GroupClose(r.p, open, r.expr) ELSE r

Primary(p) ==
    LET a == Advance(p)
        t == a.tok
    IN  IF t = NoToken
            THEN Err(p, [span |-> p.prev.span,
                         kind |-> UnexpectedTokenKind(ExpectedAtEof, "Eof")])
        ELSE IF t.tipo = "Number"
            THEN IF NumberItem(a.p, t.span).num.ok
                    THEN Ok(a.p, Expression(t.span, NumberItem(a.p, t.span)))
                    ELSE Ok([a.p EXCEPT !.panicked = TRUE],
                            Expression(t.span, NumberItem(a.p, t.span)))
        ELSE IF t.tipo = "True"
            THEN Ok(a.p, Expression(t.span, [tag |-> "Bool", val |-> TRUE]))
        ELSE IF t.tipo = "False"
            THEN Ok(a.p, Expression(t.span, [tag |-> "Bool", val |-> FALSE]))
        ELSE IF t.tipo = "String"
            THEN Ok(a.p, Expression(t.span, StringItem(a.p, t.span)))
        ELSE IF t.tipo = "Nil"
            THEN Ok(a.p, Expression(t.span, [tag |-> "Nil"]))
        ELSE IF t.tipo = "LeftParen"
            THEN Group(GroupInner(a.p), t)
        ELSE Err(a.p, [span |-> t.span,
                       kind |-> UnexpectedTokenKind(ExpectedAtToken, t.tipo)])

\* A parser that cancels no pair of unary operators.
UnaryPairsKept(p) == p

UnaryPairs(p) ==
    IF PartialNextChunk(p) \in {<<"Bang", "Bang">>, <<"Minus", "Minus">>}
        THEN UnaryPairs(BumpN(p, 2))
        ELSE p

UnaryKindOf(tipo) == CASE tipo = "Minus" -> "Minus" [] tipo = "Bang" -> "Bang"

\* The span unary gives the node it builds over `operand`.
UnarySpan(op, operand) == operand.span

\* A unary that hands the operand's error to its caller.
UnaryFallbackPropagates(r) == r

\* What unary does when the operand of its operator failed with `r`.
UnaryFallback(r) ==
    Primary(Diag(r.p, r.err.span, "Expected unary, but found error", r.err))

\* The `match self.unary()` of unary: `r` is what the operand returned,
\* `t` the operator token.
UnaryOperand(r, t) ==
    IF r.ok
        THEN Ok(r.p, Expression(UnarySpan(t, r.expr),
                                UnaryItem(r.expr, UnaryKindOf(t.tipo))))
        ELSE UnaryFallback(r)

Unary(p) ==
    LET q == UnaryPairs(p)
        t == Peek(q)
    IN  IF t.tipo \in {"Minus", "Bang"}
            THEN UnaryOperand(Unary(Bump(q)), t)
            ELSE Primary(q)

\* A binary level that hands the operand's error to its caller.
OperandFailedPropagates(r, lhs, msg) == r

\* What a binary level does when the operand after its operator failed
\* with `r`: report it, leave the loop and return the left-hand side.
OperandFailed(r, lhs, msg) == Ok(Diag(r.p, r.err.span, msg, r.err), lhs)

\* The `let kind = match tipo { ... }` of the four binary levels.
BinaryKindOf(tipo) ==
    CASE tipo = "Star" -> "Star"
      [] tipo = "Slash" -> "Slash"
      [] tipo = "Minus" -> "Minus"
      [] tipo = "Plus" -> "Plus"
      [] tipo = "Less" -> "Less"
      [] tipo = "LessEqual" -> "LessEqual"
      [] tipo = "GreaterEqual" -> "GreaterEqual"
      [] tipo = "Greater" -> "Greater"
      [] tipo = "BangEqual" -> "BangEqual"
      [] tipo = "EqualEqual" -> "EqualEqual"

BinaryNode(lhs, rhs, tipo) ==
    Expression(SpanJoin(lhs.span, rhs.span), BinaryItem(lhs, rhs, BinaryKindOf(tipo)))

\* The `match self.unary()` in the loop of factor: `r` is what the operand after
\* the operator `tipo` returned.
FactorRhs(r, lhs, tipo) ==
    IF r.ok THEN FactorLoop(r.p, BinaryNode(lhs, r.expr, tipo))
            ELSE OperandFailed(r, lhs, "Expected unary, but found error")

FactorLoop(p, lhs) ==
    IF Peek(p).tipo \in {"Star", "Slash"}
        THEN FactorRhs(Unary(Bump(p)), lhs, Peek(p).tipo)
        ELSE Ok(p, lhs)

\* `let mut lhs = self.unary()?;` and the loop after it.
FactorLhs(r) == IF r.ok THEN FactorLoop(r.p, r.expr) ELSE r

Factor(p) == FactorLhs(Unary(p))

\* A term level that folds to the right.
TermLoopRight(p, lhs) ==
    IF Peek(p).tipo \in {"Plus", "Minus"}
        THEN LET r == Term(Bump(p))
             IN  IF r.ok
                    THEN Ok(r.p, BinaryNode(lhs, r.expr, Peek(p).tipo))
                    ELSE OperandFailed(r, lhs, "Expected factor, but found error")
        ELSE Ok(p, lhs)

\* The `match self.factor()` in the loop of term: `r` is what the operand after
\* the operator `tipo` returned.
TermRhs(r, lhs, tipo) ==
    IF r.ok THEN TermLoop(r.p, BinaryNode(lhs, r.expr, tipo))
            ELSE OperandFailed(r, lhs, "Expected factor, but found error")

TermLoop(p, lhs) ==
    IF Peek(p).tipo \in {"Plus", "Minus"}
        THEN TermRhs(Factor(Bump(p)), lhs, Peek(p).tipo)
        ELSE Ok(p, lhs)

\* `let mut lhs = self.factor()?;` and the loop after it.
TermLhs(r) == IF r.ok THEN TermLoop(r.p, r.expr) ELSE r

Term(p) == TermLhs(Factor(p))

\* The `match self.term()` in the loop of comparison: `r` is what the operand after
\* the operator `tipo` returned.
ComparisonRhs(r, lhs, tipo) ==
    IF r.ok THEN ComparisonLoop(r.p, BinaryNode(lhs, r.expr, tipo))
            ELSE OperandFailed(r, lhs, "Expected term, but found error")

ComparisonLoop(p, lhs) ==
    IF Peek(p).tipo \in {"Less", "LessEqual", "GreaterEqual", "Greater"}
        THEN ComparisonRhs(Term(Bump(p)), lhs, Peek(p).tipo)
        ELSE Ok(p, lhs)

\* `let mut lhs = self.term()?;` and the loop after it.
ComparisonLhs(r) == IF r.ok THEN ComparisonLoop(r.p, r.expr) ELSE r

Comparison(p) == ComparisonLhs(Term(p))

\* The `match self.comparison()` in the loop of equality: `r` is what the operand after
\* the operator `tipo` returned.
EqualityRhs(r, lhs, tipo) ==
    IF r.ok THEN EqualityLoop(r.p, BinaryNode(lhs, r.expr, tipo))
            ELSE OperandFailed(r, lhs, "Expected comparison, but found error")

EqualityLoop(p, lhs) ==
    IF Peek(p).tipo \in {"EqualEqual", "BangEqual"}
        THEN EqualityRhs(Comparison(Bump(p)), lhs, Peek(p).tipo)
        ELSE Ok(p, lhs)

\* `let mut lhs = self.comparison()?;` and the loop after it.
EqualityLhs(r) == IF r.ok THEN EqualityLoop(r.p, r.expr) ELSE r

Equality(p) == EqualityLhs(Comparison(p))

ParserParse(p) == Equality(p)

(***************************************************************************)
(* The scanner as a state machine: one action per call of Scanner::next.   *)
(***************************************************************************)
ParserIdle == StructOf(ParserNew(<<>>, <<>>))

\* No call of a Span method is under way.
SpanIdle == [fn |-> "none"]

ScanSources ==
    SeqsUpTo(SrcAlphabet, MaxSrcLen)
        \cup SeqsUpTo(NumAlphabet, MaxNumLen)
        \cup SeqsUpTo(IdentAlphabet, MaxIdentLen)
        \cup SeqsUpTo(OpAlphabet, MaxOpLen)

ScanInit ==
    /\ \E src \in ScanSources : scanner = ScannerNew(src)
    /\ out = <<>>
    /\ noneCalls = 0
    /\ parser = ParserIdle
    /\ diags = <<>>
    /\ result = [done |-> FALSE]
    /\ spanCall = SpanIdle
    /\ pc = "scan"

\* A call of Scanner::next that yields an element.
ScanNext ==
    /\ pc = "scan"
    /\ ~scanner.panicked
    /\ IteratorNext(scanner).some
    /\ scanner' = IteratorNext(scanner).s
    /\ out' = Append(out, IteratorNext(scanner).item)
    /\ UNCHANGED <<noneCalls, parser, diags, result, spanCall, pc>>

\* A call of Scanner::next that panics inside the cursor.
ScanPanic ==
    /\ pc = "scan"
    /\ ~scanner.panicked
    /\ IteratorNext(scanner).s.panicked
    /\ ~IteratorNext(scanner).some
    /\ scanner' = IteratorNext(scanner).s
    /\ UNCHANGED <<out, noneCalls, parser, diags, result, spanCall, pc>>

\* A call of Scanner::next at the end of the source: None.
ScanNone ==
    /\ pc = "scan"
    /\ ~scanner.panicked
    /\ ~IteratorNext(scanner).some
    /\ ~IteratorNext(scanner).s.panicked
    /\ noneCalls < MaxNoneCalls
    /\ scanner' = IteratorNext(scanner).s
    /\ noneCalls' = noneCalls + 1
    /\ UNCHANGED <<out, parser, diags, result, spanCall, pc>>

ScanNextStep == ScanNext \/ ScanPanic \/ ScanNone

ScanSpec == ScanInit /\ [][ScanNextStep]_vars

(***************************************************************************)
(* The parser as a state machine.  An input is a sequence of token kinds;  *)
(* its source text is the kinds' lexemes with one space between them, and  *)
(* the token slice is what run() collects from the scanner over that text. *)
(***************************************************************************)
Punctuation ==
    [LeftParen |-> <<"(">>, RightParen |-> <<")">>, LeftBrace |-> <<"{">>,
     RightBrace |-> <<"}">>, Comma |-> <<",">>, Dot |-> <<".">>,
     Minus |-> <<"-">>, Plus |-> <<"+">>, Semicolon |-> <<";">>,
     Star |-> <<"*">>, Slash |-> <<"/">>, Bang |-> <<"!">>,
     BangEqual |-> <<"!", "=">>, Equal |-> <<"=">>, EqualEqual |-> <<"=", "=">>,
     Greater |-> <<">">>, GreaterEqual |-> <<">", "=">>, Less |-> <<"<">>,
     LessEqual |-> <<"<", "=">>, Number |-> <<"1", ".", "5">>,
     String |-> <<"\"", "a", "\"">>, Identifier |-> <<"a">>]

KeywordKinds == {Keywords[kw] : kw \in DOMAIN Keywords}

ParserKinds == DOMAIN Punctuation \cup KeywordKinds

Lexeme(kind) ==
    IF kind \in DOMAIN Punctuation
        THEN Punctuation[kind]
        ELSE CHOOSE kw \in DOMAIN Keywords : Keywords[kw] = kind

RECURSIVE SourceOf(_)
SourceOf(kinds) ==
    IF kinds = <<>> THEN <<>>
    ELSE IF Len(kinds) = 1 THEN Lexeme(kinds[1])
    ELSE Lexeme(kinds[1]) \o <<" ">> \o SourceOf(Tail(kinds))

\* The token kinds the general inputs are drawn from.
AnyKinds ==
    {"Number", "LeftParen", "RightParen", "Minus", "Bang", "Plus", "Star",
     "EqualEqual", "Less"}

\* The well-formed expressions of the grammar, as token-kind sequences of
\* at most n tokens.
GrammarLiterals == {"Number", "Nil"}

GrammarUnary == {"Minus", "Bang"}

GrammarBinary == {"Plus", "Minus", "Star", "EqualEqual", "Less"}

RECURSIVE WfExpr(_), WfUnary(_), WfPrimary(_)
WfPrimary(n) ==
    IF n < 1 THEN {}
    ELSE {<<k>> : k \in GrammarLiterals}
         \cup {<<"LeftParen">> \o e \o <<"RightParen">> : e \in WfExpr(n - 2)}

WfUnary(n) ==
    IF n < 1 THEN {}
    ELSE WfPrimary(n) \cup {<<op>> \o u : op \in GrammarUnary, u \in WfUnary(n - 1)}

WfExpr(n) ==
    IF n < 1 THEN {}
    ELSE WfUnary(n)
         \cup {x \in {e \o <<op>> \o u : e \in WfExpr(n - 2), op \in GrammarBinary,
                                        u \in WfUnary(n - 2)} : Len(x) <= n}

\* literal (operator literal)*, with at most n operators of any kind.
RECURSIVE OperandOpSeqs(_)
OperandOpSeqs(n) ==
    IF n = 0 THEN {<<"Number">>}
    ELSE OperandOpSeqs(n - 1)
         \cup {s \o <<op, "Number">> :
                 s \in OperandOpSeqs(n - 1),
                 op \in {"EqualEqual", "BangEqual", "Less", "LessEqual", "Greater",
                         "GreaterEqual", "Plus", "Minus", "Star", "Slash"}}

\* At most n unary operators and a literal, alone or after `1 -` or `1 *`.
UnaryPrefixSeqs(n) ==
    {head \o ops \o <<"Number">> :
        head \in {<<>>, <<"Number", "Minus">>, <<"Number", "Star">>},
        ops \in SeqsUpTo(GrammarUnary, n)}

ParseInputs ==
    SeqsUpTo(AnyKinds, MaxTokens)
        \cup WfExpr(MaxExprLen)
        \cup UnaryPrefixSeqs(MaxUnaryOps)
        \cup OperandOpSeqs(MaxOps)
        \cup {<<k>> : k \in ParserKinds}

ScannerIdle == ScannerNew(<<>>)

ParseInit ==
    /\ \E kinds \in ParseInputs :
          parser = StructOf(ParserNew(Collect(SourceOf(kinds)).tokens, SourceOf(kinds)))
    /\ diags = <<>>
    /\ result = [done |-> FALSE]
    /\ scanner = ScannerIdle
    /\ out = <<>>
    /\ noneCalls = 0
    /\ spanCall = SpanIdle
    /\ pc = "parse"

\* Parser::parse, called once on a new parser.
Parse ==
    /\ pc = "parse"
    /\ LET r == ParserParse(Running(parser, diags))
       IN  /\ parser' = StructOf(r.p)
           /\ diags' = r.p.diags
           /\ result' = IF r.ok THEN [done |-> TRUE, ok |-> TRUE, expr |-> r.expr]
                                ELSE [done |-> TRUE, ok |-> FALSE, err |-> r.err]
    /\ pc' = "parsed"
    /\ UNCHANGED <<scanner, out, noneCalls, spanCall>>

ParseSpec == ParseInit /\ [][Parse]_vars

(***************************************************************************)
(* span.rs as a state machine: one call of Span::join on two spans, or of  *)
(* Span::get_line_col on a span of a source.  The spans have start <= end, *)
(* and a located span starts at a character boundary of its source, as the *)
(* spans of the scanner and the parser do.                                 *)
(***************************************************************************)
Spans(n) == {s \in (0..n) \X (0..n) : s[1] <= s[2]}

LocAlphabet == {"a", "\n", "U+00E9"}

\* The ranges a..b of lines around the line of a span.
Windows == (-MaxWindow..MaxWindow) \X (-MaxWindow..MaxWindow)

SpansOf(source) ==
    {s \in Spans(ByteOff(source, Len(source))) :
        \E k \in 0..Len(source) : ByteOff(source, k) = s[1]}

\* The spans that slice a source: both ends at a character boundary.
SlicesOf(source) ==
    {s \in SpansOf(source) : \E k \in 0..Len(source) : ByteOff(source, k) = s[2]}

\* The ranges n of Diagnostic::get_context: n.start <= 0 <= n.end.
DiagWindows == (-MaxWindow..0) \X (0..MaxWindow)

SpanInit ==
    /\ \/ /\ pc = "join"
          /\ \E a \in Spans(MaxOffset), b \in Spans(MaxOffset) :
                spanCall = [fn |-> "join", self |-> a, rhs |-> b]
       \/ /\ pc = "get_line_col"
          /\ \E source \in SeqsUpTo(LocAlphabet, MaxLocLen) :
                \E span \in SpansOf(source) :
                    spanCall = [fn |-> "get_line_col", self |-> span, source |-> source]
       \/ /\ pc = "get_context"
          /\ \E source \in SeqsUpTo(LocAlphabet, MaxLocLen) :
                \E span \in SpansOf(source), range \in Windows :
                    spanCall = [fn |-> "get_context", self |-> span,
                                source |-> source, range |-> range]
       \/ /\ pc = "diag_get_context"
          /\ \E source \in SeqsUpTo(LocAlphabet, MaxLocLen) :
                \E span \in SlicesOf(source), n \in DiagWindows :
                    spanCall = [fn |-> "diag_get_context", self |-> span,
                                source |-> source, range |-> n]
    /\ scanner = ScannerIdle
    /\ out = <<>>
    /\ noneCalls = 0
    /\ parser = ParserIdle
    /\ diags = <<>>
    /\ result = [done |-> FALSE]

\* self.join(rhs)
Join ==
    /\ pc = "join"
    /\ spanCall' = [fn |-> "join", self |-> spanCall.self, rhs |-> spanCall.rhs,
                    ret |-> SpanJoin(spanCall.self, spanCall.rhs)]
    /\ pc' = "returned"
    /\ UNCHANGED <<scanner, out, noneCalls, parser, diags, result>>

\* self.get_line_col(source)
GetLineCol ==
    /\ pc = "get_line_col"
    /\ spanCall' = [fn |-> "get_line_col", self |-> spanCall.self,
                    source |-> spanCall.source,
                    ret |-> SpanGetLineCol(spanCall.self, spanCall.source)]
    /\ pc' = "returned"
    /\ UNCHANGED <<scanner, out, noneCalls, parser, diags, result>>

\* self.get_context(source, range)
GetContext ==
    /\ pc = "get_context"
    /\ spanCall' = [fn |-> "get_context", self |-> spanCall.self,
                    source |-> spanCall.source, range |-> spanCall.range,
                    ret |-> SpanGetContext(spanCall.self, spanCall.source,
                                           spanCall.range)]
    /\ pc' = "returned"
    /\ UNCHANGED <<scanner, out, noneCalls, parser, diags, result>>

\* Diagnostic::new(source, path, self, msg).get_context(n)
DiagContext ==
    /\ pc = "diag_get_context"
    /\ spanCall' = [fn |-> "diag_get_context", self |-> spanCall.self,
                    source |-> spanCall.source, range |-> spanCall.range,
                    ret |-> DiagGetContext(spanCall.self, spanCall.source,
                                           spanCall.range)]
    /\ pc' = "returned"
    /\ UNCHANGED <<scanner, out, noneCalls, parser, diags, result>>

SpanStep == Join \/ GetLineCol \/ GetContext \/ DiagContext

SpanSpec == SpanInit /\ [][SpanStep]_vars

(***************************************************************************)
(* The machines together: a run scans a source, parses a slice or calls a  *)
(* Span method.                                                            *)
(***************************************************************************)
Init == ScanInit \/ ParseInit \/ SpanInit

Next == ScanNextStep \/ Parse \/ SpanStep

Spec == Init /\ [][Next]_vars

(***************************************************************************)
(* Properties of the scanner.                                              *)
(***************************************************************************)
IsAscii(src) == \A i \in 1..Len(src) : src[i] \notin NonAscii

\* The first offset at or after `from` whose character is not in `chars`.
RECURSIVE RunEnd(_, _, _)
RunEnd(src, from, chars) ==
    IF from < Len(src) /\ src[from + 1] \in chars
        THEN RunEnd(src, from + 1, chars)
        ELSE from

CharAt(src, off) == IF off < Len(src) THEN src[off + 1] ELSE NoChar

\* C8: over an ASCII source the spans of the yielded elements tile the
\* source: the first starts at 0, each starts where the one before ended,
\* the last ends at the cursor (so each span is the range the cursor moved
\* over in its call), and once None is returned they cover [0, len).
ScannerSpansTile ==
    (pc = "scan" /\ IsAscii(scanner.orig)) =>
        /\ out = <<>> => scanner.position = 0
        /\ out # <<>> =>
              /\ out[1].span[1] = 0
              /\ out[Len(out)].span[2] = scanner.position
        /\ \A i \in 1..(Len(out) - 1) : out[i + 1].span[1] = out[i].span[2]
        /\ \A i \in 1..Len(out) : out[i].span[1] < out[i].span[2]
        /\ noneCalls > 0 => scanner.position = Len(scanner.orig)

ScannerSpansTileWitness ==
    /\ pc = "scan"
    /\ IsAscii(scanner.orig)
    /\ noneCalls > 0
    /\ Len(out) >= 3
    /\ \E i, j \in 1..Len(out) : out[i].ok /\ ~out[j].ok /\ SpanLen(out[j].span) > 1

\* C9: every yielded element consumes at least one character; after an
\* error the next call goes on from the cursor; a source of n characters
\* yields at most n elements; every call returns; None comes only at the
\* end of the source and is then returned by every later call.
ScannerProgress ==
    pc = "scan" =>
        /\ \A i \in 1..Len(out) : SpanLen(out[i].span) >= 1
        /\ Len(out) <= Len(scanner.orig)
        /\ ~scanner.panicked
        /\ (out # <<>> /\ ~out[Len(out)].ok /\ scanner.idx < Len(scanner.orig)) =>
              /\ IteratorNext(scanner).some
              /\ IteratorNext(scanner).item.span[1] = out[Len(out)].span[2]
        /\ noneCalls > 0 =>
              /\ scanner.idx = Len(scanner.orig)
              /\ ~IteratorNext(scanner).some
              /\ IteratorNext(scanner).s.position = scanner.position

\* The literal that starts at offset `from`: where its digits end, whether a
\* fraction follows, where the fraction ends, whether a second `.` follows.
NumDigitsEnd(src, from) == RunEnd(src, from, Digits)

NumHasFraction(src, from) ==
    /\ CharAt(src, NumDigitsEnd(src, from)) = "."
    /\ CharAt(src, NumDigitsEnd(src, from) + 1) \in Digits

NumFractionEnd(src, from) == RunEnd(src, NumDigitsEnd(src, from) + 1, Digits)

NumHasSecondDot(src, from) ==
    /\ NumHasFraction(src, from)
    /\ CharAt(src, NumFractionEnd(src, from)) = "."
    /\ CharAt(src, NumFractionEnd(src, from) + 1) \in Digits

\* C10: an element that starts at a digit is an InvalidNumber error over
\* the whole run of digits and dots when a second `.` followed by a digit
\* comes after a fractional part, and otherwise a Number token over the
\* digits and the fraction; the next element starts after the run; no
\* other element is an InvalidNumber error.
MalformedNumberResync ==
    pc = "scan" =>
        \A i \in 1..Len(out) :
            LET e == out[i]
                src == scanner.orig
                from == e.span[1]
            IN  IF CharAt(src, from) \in Digits
                    THEN IF NumHasSecondDot(src, from)
                            THEN /\ ~e.ok
                                 /\ e.kind = "InvalidNumber"
                                 /\ e.span = <<from, RunEnd(src, from, NumberRunChars)>>
                                 /\ i < Len(out) =>
                                       out[i + 1].span[1] = RunEnd(src, from, NumberRunChars)
                            ELSE /\ e.ok
                                 /\ e.kind = "Number"
                                 /\ e.span = <<from, IF NumHasFraction(src, from)
                                                        THEN NumFractionEnd(src, from)
                                                        ELSE NumDigitsEnd(src, from)>>
                    ELSE e.kind # "InvalidNumber"

MalformedNumberResyncWitness ==
    /\ pc = "scan"
    /\ \E i \in 1..(Len(out) - 1) :
          /\ out[i].kind = "InvalidNumber"
          /\ SpanLen(out[i].span) >= 5
          /\ out[i + 1].ok

\* The text of an element of the output.
TextOf(e) == Slice(scanner.orig, e.span[1], e.span[2])

\* digit+ optionally followed by one `.` and digit+
IsNumberText(text) ==
    LET n == Len(text)
        dots == {i \in 1..n : text[i] = "."}
    IN  /\ n >= 1
        /\ \A i \in 1..n : text[i] \in Digits \cup {"."}
        /\ Cardinality(dots) <= 1
        /\ text[1] \in Digits
        /\ text[n] \in Digits

\* C11: the text of every Number token is digit+ optionally followed by one
\* `.` and digit+; a `.` after the digits is part of the literal only when
\* a digit follows it, and is otherwise the Dot token that comes next; so
\* the parser's decoding of the text (NumberItem in primary) succeeds.
NumberTextWellFormed ==
    pc = "scan" =>
        \A i \in 1..Len(out) :
            (out[i].ok /\ out[i].kind = "Number") =>
                /\ IsNumberText(TextOf(out[i]))
                /\ NumberItem([source |-> scanner.orig], out[i].span).num.ok
                /\ (NumHasFraction(scanner.orig, out[i].span[1])
                        <=> \E k \in 1..Len(TextOf(out[i])) : TextOf(out[i])[k] = ".")
                /\ (/\ i < Len(out)
                    /\ CharAt(scanner.orig, out[i].span[2]) = ".") =>
                        /\ out[i + 1].ok
                        /\ out[i + 1].kind = "Dot"
                        /\ out[i + 1].span = <<out[i].span[2], out[i].span[2] + 1>>

\* `1.1.` is scanned: the literal 1.1 and then the Dot.
NumberTextWellFormedWitness ==
    /\ pc = "scan"
    /\ \E i \in 1..(Len(out) - 1) :
          /\ out[i].ok /\ out[i].kind = "Number"
          /\ SpanLen(out[i].span) = 3
          /\ out[i + 1].ok /\ out[i + 1].kind = "Dot"

\* The number of characters from `k` on before the first one in `chars`.
RECURSIVE Until(_, _, _)
Until(src, k, chars) ==
    IF k < Len(src) /\ src[k + 1] \notin chars THEN Until(src, k + 1, chars) ELSE k

\* Where the call of next that follows the elements yielded so far starts.
AttemptStart == IF out = <<>> THEN 0 ELSE out[Len(out)].span[2]

\* C12: a call of next at a `"` yields one element that starts at the
\* quote: the String token through the closing quote when the quote is
\* closed before a newline, and otherwise one UnfinishedStr error over the
\* text up to the newline or the end of the source, where the next element
\* starts.
UnterminatedString ==
    pc = "scan" =>
        /\ ~(scanner.panicked /\ CharAt(scanner.orig, AttemptStart) = "\"")
        /\ \A i \in 1..Len(out) :
              LET e == out[i]
                  src == scanner.orig
                  from == e.span[1]
                  stop == Until(src, from + 1, {"\"", "\n"})
              IN  IF CharAt(src, from) = "\""
                    THEN IF CharAt(src, stop) = "\""
                            THEN /\ e.ok /\ e.kind = "String"
                                 /\ e.span = <<from, ByteOff(src, stop + 1)>>
                            ELSE /\ ~e.ok /\ e.kind = "UnfinishedStr"
                                 /\ e.span = <<from, ByteOff(src, stop)>>
                                 /\ i < Len(out) => out[i + 1].span[1] = ByteOff(src, stop)
                    ELSE e.kind \notin {"String", "UnfinishedStr"}

\* The sixteen reserved words and the kind of each.
ReservedWords ==
    {<<<<"a", "n", "d">>, "And">>, <<<<"c", "l", "a", "s", "s">>, "Class">>,
     <<<<"e", "l", "s", "e">>, "Else">>, <<<<"f", "a", "l", "s", "e">>, "False">>,
     <<<<"f", "o", "r">>, "For">>, <<<<"f", "u", "n">>, "Fun">>,
     <<<<"i", "f">>, "If">>, <<<<"n", "i", "l">>, "Nil">>, <<<<"o", "r">>, "Or">>,
     <<<<"p", "r", "i", "n", "t">>, "Print">>,
     <<<<"r", "e", "t", "u", "r", "n">>, "Return">>,
     <<<<"s", "u", "p", "e", "r">>, "Super">>, <<<<"t", "h", "i", "s">>, "This">>,
     <<<<"t", "r", "u", "e">>, "True">>, <<<<"v", "a", "r">>, "Var">>,
     <<<<"w", "h", "i", "l", "e">>, "While">>}

WordKind(text) ==
    IF \E w \in ReservedWords : w[1] = text
        THEN (CHOOSE w \in ReservedWords : w[1] = text)[2]
        ELSE "Identifier"

\* C13: an element that starts at a letter or `_` is one token over the
\* whole run of letters, digits and `_` from there; its kind is the kind of
\* the reserved word the whole run spells, and Identifier when it spells
\* none; no other element is an Identifier or a keyword.
KeywordWholeToken ==
    pc = "scan" =>
        /\ Cardinality(ReservedWords) = 16
        /\ \A i \in 1..Len(out) :
              LET e == out[i]
                  src == scanner.orig
                  from == e.span[1]
              IN  IF CharAt(src, from) \in IdentStart
                    THEN /\ e.ok
                         /\ e.span = <<from, RunEnd(src, from, IdentChars)>>
                         /\ e.kind = WordKind(TextOf(e))
                    ELSE e.kind \notin {w[2] : w \in ReservedWords} \cup {"Identifier"}

\* A word that begins with the letters of `for` is one Identifier.
KeywordWholeTokenWitness ==
    /\ pc = "scan"
    /\ \E i \in 1..Len(out) :
          /\ out[i].kind = "Identifier"
          /\ SpanLen(out[i].span) = 4
          /\ SubSeq(TextOf(out[i]), 1, 3) = <<"f", "o", "r">>

\* C14: the text at the span of a yielded token, scanned as a source of
\* its own, yields one element: a token of the same kind over the whole
\* text.
RescanSameKind ==
    pc = "scan" =>
        \A i \in 1..Len(out) :
            out[i].ok =>
                ScanAll(ScannerNew(TextOf(out[i])))
                    = <<[ok |-> TRUE, kind |-> out[i].kind,
                         span |-> <<0, Len(TextOf(out[i]))>>]>>

\* Tokens of several characters and of different kinds have been yielded.
RescanSameKindWitness ==
    /\ pc = "scan"
    /\ \E i, j \in 1..Len(out) :
          /\ out[i].ok /\ out[j].ok
          /\ out[i].kind # out[j].kind
          /\ out[i].span[1] > 0
          /\ SpanLen(out[i].span) >= 2
          /\ SpanLen(out[j].span) >= 2

\* The characters of the lexical classes: each starts a token.
Classed ==
    IdentStart \cup Digits \cup Spaces
        \cup {"(", ")", "{", "}", ",", ".", "-", "+", ";", "*", "!", "=", ">", "<",
               "/", "\""}

\* The character at the offset `off` belongs to no lexical class.
Unclassed(src, off) == CharAt(src, off) # NoChar /\ CharAt(src, off) \notin Classed

\* C15: a call of next at a character of no lexical class, non-ASCII ones
\* included, yields an UnknownToken error over exactly that character, the
\* next element starts at the following character, and the scanner never
\* aborts.
UnknownTokenOneChar ==
    pc = "scan" =>
        /\ ~scanner.panicked
        /\ \A i \in 1..Len(out) :
              LET e == out[i]
                  src == scanner.orig
                  from == e.span[1]
              IN  IF Unclassed(src, from)
                    THEN /\ ~e.ok /\ e.kind = "UnknownToken"
                         /\ e.span = <<from, from + Width(CharAt(src, from))>>
                         /\ i < Len(out) => out[i + 1].span[1] = e.span[2]
                    ELSE e.kind # "UnknownToken"

(***************************************************************************)
(* The reference grammar of the expression language, over token kinds:     *)
(*   equality   -> comparison ( ("==" | "!=") comparison )*                *)
(*   comparison -> term ( ("<" | "<=" | ">" | ">=") term )*                *)
(*   term       -> factor ( ("+" | "-") factor )*                          *)
(*   factor     -> unary ( ("*" | "/") unary )*                            *)
(*   unary      -> ("!" | "-") unary | primary                             *)
(*   primary    -> literal | "(" equality ")"                              *)
(***************************************************************************)
LiteralKinds == {"Number", "String", "True", "False", "Nil"}

UnaryOpKinds == {"Minus", "Bang"}

Tier(kind) ==
    CASE kind \in {"EqualEqual", "BangEqual"} -> 1
      [] kind \in {"Less", "LessEqual", "Greater", "GreaterEqual"} -> 2
      [] kind \in {"Plus", "Minus"} -> 3
      [] kind \in {"Star", "Slash"} -> 4
      [] OTHER -> 0

BinaryOpKinds ==
    {"EqualEqual", "BangEqual", "Less", "LessEqual", "Greater", "GreaterEqual",
     "Plus", "Minus", "Star", "Slash"}

KindAt(kinds, i) == IF i \in 1..Len(kinds) THEN kinds[i] ELSE "Eof"

\* Where the expression (the operand) that starts after token i ends, or -1
\* when none starts there.  The language does not depend on the tiers.
RECURSIVE RefExprEnd(_, _), RefOperandEnd(_, _)
RefOperandEnd(kinds, i) ==
    LET k == KindAt(kinds, i + 1)
    IN  IF k \in UnaryOpKinds THEN RefOperandEnd(kinds, i + 1)
        ELSE IF k \in LiteralKinds THEN i + 1
        ELSE IF k = "LeftParen"
            THEN LET j == RefExprEnd(kinds, i + 1)
                 IN  IF j >= 0 /\ KindAt(kinds, j + 1) = "RightParen" THEN j + 1 ELSE -1
        ELSE -1

RefExprEnd(kinds, i) ==
    LET j == RefOperandEnd(kinds, i)
    IN  IF j < 0 THEN -1
        ELSE IF KindAt(kinds, j + 1) \in BinaryOpKinds THEN RefExprEnd(kinds, j + 1)
        ELSE j

WellFormed(kinds) == kinds # <<>> /\ RefExprEnd(kinds, 0) = Len(kinds)

\* Tokens lo..hi are literal (operator literal)*.
IsOperandOp(kinds, lo, hi) ==
    /\ 1 <= lo /\ lo <= hi /\ hi <= Len(kinds)
    /\ (hi - lo) % 2 = 0
    /\ \A i \in lo..hi :
          IF (i - lo) % 2 = 0 THEN kinds[i] \in LiteralKinds
                              ELSE kinds[i] \in BinaryOpKinds

RefLiteral(p, t) ==
    Expression(t.span,
        CASE t.tipo = "Number" -> NumberItem(p, t.span)
          [] t.tipo = "String" -> StringItem(p, t.span)
          [] t.tipo = "True" -> [tag |-> "Bool", val |-> TRUE]
          [] t.tipo = "False" -> [tag |-> "Bool", val |-> FALSE]
          [] t.tipo = "Nil" -> [tag |-> "Nil"])

\* The tree of the reference grammar over tokens lo..hi, a sequence
\* literal (operator literal)*: the root is the last operator of the
\* loosest tier present, which makes every tier left-associative.
RECURSIVE RefTree(_, _, _)
RefTree(p, lo, hi) ==
    IF lo = hi THEN RefLiteral(p, p.tokens[lo])
    ELSE LET ops == {i \in lo..hi : (i - lo) % 2 = 1}
             loosest == CHOOSE n \in 1..4 :
                            /\ \E i \in ops : Tier(p.tokens[i].tipo) = n
                            /\ \A i \in ops : Tier(p.tokens[i].tipo) >= n
             root == CHOOSE i \in ops :
                            /\ Tier(p.tokens[i].tipo) = loosest
                            /\ \A j \in ops : Tier(p.tokens[j].tipo) = loosest => j <= i
         IN  [span |-> <<p.tokens[lo].span[1], p.tokens[hi].span[2]>>,
              item |-> [tag |-> "Binary",
                        lhs |-> RefTree(p, lo, root - 1),
                        rhs |-> RefTree(p, root + 1, hi),
                        op |-> p.tokens[root].tipo]]

(***************************************************************************)
(* Properties of the parser.                                               *)
(***************************************************************************)
TokenKinds == [i \in DOMAIN parser.tokens |-> parser.tokens[i].tipo]

\* The parser as Parser::new built it over the tokens of this run.
Fresh == ParserNew(parser.tokens, parser.source)

NTokens == Len(parser.tokens)

\* C1: a well-formed expression is parsed to one Expression for the whole
\* input: parse returns Ok and has consumed every token of the slice.
ParseConsumesWholeInput ==
    (pc = "parsed" /\ WellFormed(TokenKinds)) =>
        /\ result.ok
        /\ parser.cursor = NTokens

\* C2: over literal (operator literal)* the parser returns the tree of the
\* reference grammar: four tiers, each left-associative.
BinaryPrecedence ==
    (pc = "parsed" /\ IsOperandOp(TokenKinds, 1, NTokens)) =>
        /\ result.ok
        /\ result.expr = RefTree(Fresh, 1, NTokens)
        /\ parser.cursor = NTokens
        /\ diags = <<>>

BinaryPrecedenceWitness ==
    /\ pc = "parsed"
    /\ TokenKinds = <<"Number", "Minus", "Number", "Minus", "Number">>
    /\ result.ok
    /\ result.expr.item.tag = "Binary"
    /\ result.expr.item.lhs.item.tag = "Binary"
    /\ result.expr.item.rhs.item.tag = "Number"

\* The unary operators a maximal run leaves: one when its length is odd.
RECURSIVE RunLength(_, _)
RunLength(ops, c) ==
    IF ops # <<>> /\ ops[1] = c THEN 1 + RunLength(Tail(ops), c) ELSE 0

RECURSIVE Surviving(_)
Surviving(ops) ==
    IF ops = <<>> THEN <<>>
    ELSE LET n == RunLength(ops, ops[1])
         IN  (IF n % 2 = 1 THEN <<ops[1]>> ELSE <<>>)
                 \o Surviving(SubSeq(ops, n + 1, Len(ops)))

\* The operators of the Unary nodes on top of an expression, outermost
\* first, and the expression under them.
RECURSIVE UnaryChain(_)
UnaryChain(e) ==
    IF e.item.tag = "Unary"
        THEN LET c == UnaryChain(e.item.operand)
             IN  [ops |-> <<e.item.op>> \o c.ops, operand |-> c.operand]
        ELSE [ops |-> <<>>, operand |-> e]

IsUnaryPrefix(kinds, lo, hi) ==
    /\ 1 <= lo /\ lo <= hi /\ hi <= Len(kinds)
    /\ \A i \in lo..(hi - 1) : kinds[i] \in UnaryOpKinds
    /\ kinds[hi] \in LiteralKinds

\* C3: a prefix of unary operators before an operand leaves, of each
\* maximal run of one operator, one Unary node when the run is odd and
\* none when it is even, in the original order; at the start of the input
\* and after a binary operator.
UnaryPairCancellation ==
    /\ (pc = "parsed" /\ IsUnaryPrefix(TokenKinds, 1, NTokens)) =>
          /\ result.ok
          /\ parser.cursor = NTokens
          /\ UnaryChain(result.expr).ops = Surviving(SubSeq(TokenKinds, 1, NTokens - 1))
          /\ UnaryChain(result.expr).operand = RefLiteral(Fresh, parser.tokens[NTokens])
    /\ (/\ pc = "parsed"
        /\ NTokens >= 3
        /\ TokenKinds[1] \in LiteralKinds
        /\ TokenKinds[2] \in BinaryOpKinds
        /\ IsUnaryPrefix(TokenKinds, 3, NTokens)) =>
          /\ result.ok
          /\ parser.cursor = NTokens
          /\ result.expr.item.tag = "Binary"
          /\ result.expr.item.lhs = RefLiteral(Fresh, parser.tokens[1])
          /\ UnaryChain(result.expr.item.rhs).ops =
                Surviving(SubSeq(TokenKinds, 3, NTokens - 1))
          /\ UnaryChain(result.expr.item.rhs).operand =
                RefLiteral(Fresh, parser.tokens[NTokens])

UnaryPairCancellationWitness ==
    /\ pc = "parsed"
    /\ TokenKinds = <<"Bang", "Minus", "Minus", "Minus", "Number">>
    /\ result.ok
    /\ UnaryChain(result.expr).ops = <<"Bang", "Minus">>

IsUnclosed(d) == d.msg = "Unclosed ("

\* C4: a group closed by `)` whose content has an equality operator is
\* parsed whole, as the Binary node of the reference grammar, with no
\* `Unclosed (` diagnostic.
GroupAcceptsEquality ==
    (/\ pc = "parsed"
     /\ NTokens >= 5
     /\ TokenKinds[1] = "LeftParen"
     /\ TokenKinds[NTokens] = "RightParen"
     /\ IsOperandOp(TokenKinds, 2, NTokens - 1)
     /\ \E i \in 2..(NTokens - 1) : Tier(TokenKinds[i]) = 1) =>
        /\ result.ok
        /\ result.expr.item = RefTree(Fresh, 2, NTokens - 1).item
        /\ \A i \in 1..Len(diags) : ~IsUnclosed(diags[i])

\* The number of `(` the input opens with.
RECURSIVE Opens(_)
Opens(kinds) ==
    IF kinds # <<>> /\ kinds[1] = "LeftParen" THEN 1 + Opens(Tail(kinds)) ELSE 0

\* Where the comparison-level expression that starts at token lo ends: before
\* the first equality operator.
RECURSIVE ComparisonEnd(_, _, _)
ComparisonEnd(kinds, lo, hi) ==
    IF lo + 1 <= hi /\ Tier(kinds[lo + 1]) # 1
        THEN ComparisonEnd(kinds, lo + 2, hi)
        ELSE lo

\* C5: `(`, k times, then a well-formed expression and no `)`: primary
\* prints one `Unclosed (` diagnostic per group and nothing else, and
\* returns Ok with the expression parsed inside; parse returns Ok.
GroupingRecovery ==
    (/\ pc = "parsed"
     /\ Opens(TokenKinds) >= 1
     /\ IsOperandOp(TokenKinds, Opens(TokenKinds) + 1, NTokens)) =>
        LET k == Opens(TokenKinds)
            r == Primary(Fresh)
        IN  /\ r.ok
            /\ r.expr = RefTree(Fresh, k + 1, ComparisonEnd(TokenKinds, k + 1, NTokens))
            /\ Len(r.p.diags) = k
            /\ \A i \in 1..k : IsUnclosed(r.p.diags[i])
            /\ result.ok
            /\ result.expr = RefTree(Fresh, k + 1, NTokens)
            /\ Len(diags) = k
            /\ \A i \in 1..k : IsUnclosed(diags[i])

GroupingRecoveryWitness ==
    /\ pc = "parsed"
    /\ TokenKinds = <<"LeftParen", "Number">>
    /\ result.ok
    /\ result.expr.item.tag = "Number"
    /\ Len(diags) = 1
    /\ IsUnclosed(diags[1])

\* The message a binary level prints when the operand of `kind` fails.
ExpectedMsg(kind) ==
    CASE Tier(kind) = 1 -> "Expected comparison, but found error"
      [] Tier(kind) = 2 -> "Expected term, but found error"
      [] Tier(kind) = 3 -> "Expected factor, but found error"
      [] Tier(kind) = 4 -> "Expected unary, but found error"

\* literal (operator literal)* operator, and then the end of the input or a `)`.
IsDanglingOperator(kinds) ==
    \E n \in {Len(kinds) - 1, Len(kinds) - 2} :
        /\ n >= 1
        /\ IsOperandOp(kinds, 1, n)
        /\ kinds[n + 1] \in BinaryOpKinds
        /\ n + 2 = Len(kinds) => kinds[n + 2] = "RightParen"

DanglingAt(kinds) ==
    CHOOSE n \in {Len(kinds) - 1, Len(kinds) - 2} :
        /\ n >= 1
        /\ IsOperandOp(kinds, 1, n)
        /\ kinds[n + 1] \in BinaryOpKinds
        /\ n + 2 = Len(kinds) => kinds[n + 2] = "RightParen"

\* C6: a level returns Err only when its first operand fails, so an
\* operand's failure after an operator never reaches the caller; when the
\* operand after the last operator fails, the level prints one diagnostic
\* and parse returns Ok with the tree of what came before the operator.
BinaryLevelRecovery ==
    /\ pc = "parsed" =>
          /\ result.ok = Unary(Fresh).ok
          /\ Factor(Fresh).ok = Unary(Fresh).ok
          /\ Term(Fresh).ok = Unary(Fresh).ok
          /\ Comparison(Fresh).ok = Unary(Fresh).ok
    /\ (pc = "parsed" /\ IsDanglingOperator(TokenKinds)) =>
          LET n == DanglingAt(TokenKinds)
          IN  /\ result.ok
              /\ result.expr = RefTree(Fresh, 1, n)
              /\ parser.cursor = NTokens
              /\ Len(diags) = 1
              /\ diags[1].msg = ExpectedMsg(TokenKinds[n + 1])
              /\ diags[1].span = parser.tokens[NTokens].span
              /\ diags[1].err.span = parser.tokens[NTokens].span

BinaryLevelRecoveryWitness ==
    /\ pc = "parsed"
    /\ TokenKinds = <<"Number", "Plus", "Number", "Star">>
    /\ result.ok
    /\ result.expr.item.tag = "Binary"
    /\ result.expr.item.op = "Plus"
    /\ Len(diags) = 1

\* C7: the span of the expression parse returns runs from the start of the
\* leftmost token consumed to the end of the rightmost: for a well-formed
\* input consumed whole, from the first token to the last.
RoundTripSpan ==
    (/\ pc = "parsed"
     /\ WellFormed(TokenKinds)
     /\ result.ok
     /\ parser.cursor = NTokens) =>
        result.expr.span = <<parser.tokens[1].span[1], parser.tokens[NTokens].span[2]>>

\* The errors primary has returned in this run: the one parse returned and
\* those the levels above have reported in a diagnostic.
ErrorsReturned ==
    (IF pc = "parsed" /\ ~result.ok THEN {result.err} ELSE {})
        \cup {diags[i].err : i \in {j \in 1..Len(diags) : diags[j].err # NoError}}

\* The token kinds that start a primary expression.
PrimaryStart == {"Number", "True", "False", "String", "Nil", "LeftParen"}

AtEndOfInput(e) == e.kind.tag = "Eof" \/ e.kind.found = "Eof"

\* C16: an error of primary at a token that cannot start a primary is an
\* UnexpectedTokenKind whose found is the token's kind, whose span is the
\* token's span and whose expected set is {Number, True, False, String,
\* Nil, LeftParen}; an input whose first token starts neither a primary
\* nor a unary makes parse return that error for its first token.
PrimaryUnexpectedToken ==
    pc = "parsed" =>
        /\ (NTokens >= 1 /\ TokenKinds[1] \notin PrimaryStart \cup UnaryOpKinds) =>
              /\ ~result.ok
              /\ result.err.span = parser.tokens[1].span
              /\ result.err.kind.tag = "UnexpectedTokenKind"
              /\ result.err.kind.found = TokenKinds[1]
        /\ \A e \in ErrorsReturned :
              ~AtEndOfInput(e) =>
                  /\ e.kind.tag = "UnexpectedTokenKind"
                  /\ e.kind.found \notin PrimaryStart
                  /\ \E i \in 1..NTokens :
                        /\ parser.tokens[i].span = e.span
                        /\ parser.tokens[i].tipo = e.kind.found
                  /\ {e.kind.expected[k] : k \in DOMAIN e.kind.expected} = PrimaryStart

\* C17: an error of primary at the end of the input has the kind Eof; its
\* span is the span of the last token of the input, the last one consumed,
\* and a zero-width span when the input has no token; parse of an input
\* with no token returns that error.
PrimaryAtEof ==
    pc = "parsed" =>
        /\ NTokens = 0 => ~result.ok /\ AtEndOfInput(result.err)
        /\ \A e \in ErrorsReturned :
              AtEndOfInput(e) =>
                  /\ e.kind.tag = "Eof"
                  /\ IF NTokens = 0
                        THEN e.span[1] = e.span[2]
                        ELSE e.span = parser.tokens[NTokens].span

\* A prefix operator and then a token that starts neither a unary nor a
\* primary: the operand of the operator fails at that token.
IsFailedOperand(kinds) ==
    /\ Len(kinds) >= 2
    /\ kinds[1] \in UnaryOpKinds
    /\ kinds[2] \notin PrimaryStart \cup UnaryOpKinds

\* C18: when the operand of a prefix operator fails, unary prints one
\* diagnostic that carries the operand's error and returns what primary
\* returns at the cursor reached, after the failing token: its error at the
\* end of the input or at a token that starts no primary (a `-` or `!`
\* included, since it is a bare primary), and the literal found there
\* otherwise, without a Unary node and without the operand's error.
UnaryFallsBackToPrimary ==
    /\ (pc = "parsed" /\ IsFailedOperand(TokenKinds)) =>
          /\ Len(diags) >= 1
          /\ diags[1].msg = "Expected unary, but found error"
          /\ diags[1].span = parser.tokens[2].span
          /\ diags[1].err.span = parser.tokens[2].span
          /\ diags[1].err.kind.found = TokenKinds[2]
          /\ NTokens = 2 =>
                /\ ~result.ok
                /\ AtEndOfInput(result.err)
                /\ result.err.span = parser.tokens[2].span
                /\ Len(diags) = 1
                /\ parser.cursor = 2
          /\ (NTokens >= 3 /\ TokenKinds[3] \notin PrimaryStart) =>
                /\ ~result.ok
                /\ result.err.span = parser.tokens[3].span
                /\ result.err.kind.found = TokenKinds[3]
                /\ Len(diags) = 1
                /\ parser.cursor = 3
          /\ (NTokens >= 3 /\ TokenKinds[3] \in LiteralKinds) => result.ok
          /\ (NTokens = 3 /\ TokenKinds[3] \in LiteralKinds) =>
                /\ result.expr = RefLiteral(Fresh, parser.tokens[3])
                /\ Len(diags) = 1
                /\ parser.cursor = 3
    /\ (pc = "parsed" /\ NTokens = 1 /\ TokenKinds[1] \in UnaryOpKinds) =>
          /\ ~result.ok
          /\ AtEndOfInput(result.err)
          /\ result.err.span = parser.tokens[1].span
          /\ Len(diags) = 1
          /\ diags[1].msg = "Expected unary, but found error"
          /\ diags[1].err = result.err

\* `- ) 1.5`: the operand fails at `)` and the literal after it is returned.
UnaryFallsBackToPrimaryWitness ==
    /\ pc = "parsed"
    /\ TokenKinds = <<"Minus", "RightParen", "Number">>
    /\ result.ok
    /\ result.expr.item.tag = "Number"
    /\ Len(diags) = 1

(***************************************************************************)
(* Properties of Span.                                                     *)
(***************************************************************************)
Min(x, y) == IF x <= y THEN x ELSE y

Max(x, y) == IF x >= y THEN x ELSE y

\* C19: join returns the smallest span that covers both spans: it starts at
\* the lesser start, ends at the greater end, and has start <= end.
JoinSmallestCover ==
    (pc = "returned" /\ spanCall.fn = "join") =>
        /\ spanCall.ret[1] = Min(spanCall.self[1], spanCall.rhs[1])
        /\ spanCall.ret[2] = Max(spanCall.self[2], spanCall.rhs[2])
        /\ spanCall.ret[1] <= spanCall.ret[2]

\* The offset of the first character of the line that holds the offset
\* `start`: after the last newline before it, or the start of the source.
LineStart(source, start) ==
    LET nls == {k \in 1..Len(source) : source[k] = "\n" /\ ByteOff(source, k) <= start}
    IN  IF nls = {} THEN 0 ELSE ByteOff(source, CHOOSE k \in nls : \A j \in nls : j <= k)

NewlinesBefore(source, start) ==
    Cardinality({k \in 1..Len(source) : source[k] = "\n" /\ ByteOff(source, k) <= start})

\* C20: get_line is 1 plus the number of newlines before the start of the
\* span; get_col is 1 plus the distance from the first character of that
\* line to the start; so the offset of that character plus get_col - 1 is
\* the start.
LocationOneBased ==
    (pc = "returned" /\ spanCall.fn = "get_line_col") =>
        LET source == spanCall.source
            start == spanCall.self[1]
        IN  /\ spanCall.ret.line = 1 + NewlinesBefore(source, start)
            /\ spanCall.ret.col = 1 + (start - LineStart(source, start))
            /\ LineStart(source, start) + spanCall.ret.col - 1 = start

RefNewlines(source) == Cardinality({k \in 1..Len(source) : source[k] = "\n"})

\* The number of lines of the source: one per newline, and one more for
\* the text after the last newline when there is some.
RefLineCount(source) ==
    RefNewlines(source)
        + (IF source # <<>> /\ source[Len(source)] # "\n" THEN 1 ELSE 0)

\* The text of line n, without its newline.
RefLineText(source, n) ==
    LET chars == {k \in 1..Len(source) :
                    Cardinality({j \in 1..(k - 1) : source[j] = "\n"}) = n - 1
                    /\ source[k] # "\n"}
        first == CHOOSE k \in chars : \A j \in chars : k <= j
    IN  IF chars = {} THEN <<>> ELSE SubSeq(source, first, first + Cardinality(chars) - 1)

\* C21: get_context returns, in ascending order of line number, the pair
\* (n, text of line n) for exactly the lines n of the source with
\* L + a <= n <= L + b, L being the line of the start of the span; the
\* lines of the window before line 1 or after the last line are left out.
ContextWindowLines ==
    (pc = "returned" /\ spanCall.fn = "get_context") =>
        LET source == spanCall.source
            L == 1 + NewlinesBefore(source, spanCall.self[1])
            ret == spanCall.ret
            wanted == {n \in 1..RefLineCount(source) :
                         L + spanCall.range[1] <= n /\ n <= L + spanCall.range[2]}
        IN  /\ {ret[i].line : i \in 1..Len(ret)} = wanted
            /\ Len(ret) = Cardinality(wanted)
            /\ \A i \in 1..(Len(ret) - 1) : ret[i].line < ret[i + 1].line
            /\ \A i \in 1..Len(ret) : ret[i].src = RefLineText(source, ret[i].line)

\* A window cut at the last line: the line before the span's and the
\* span's, the last of the source, are returned and nothing stands for the
\* line after.
ContextWindowLinesWitness ==
    /\ pc = "returned"
    /\ spanCall.fn = "get_context"
    /\ spanCall.range = <<-1, 1>>
    /\ Len(spanCall.ret) = 2
    /\ spanCall.ret[2].line = 1 + NewlinesBefore(spanCall.source, spanCall.self[1])
    /\ spanCall.ret[2].src # <<>>

(***************************************************************************)
(* Properties of the cursor of the parser.                                 *)
(***************************************************************************)
\* The number of nodes of an expression.
RECURSIVE ExprSize(_)
ExprSize(expr) ==
    IF expr.item.tag = "Unary" THEN 1 + ExprSize(expr.item.operand)
    ELSE IF expr.item.tag = "Binary"
        THEN 1 + ExprSize(expr.item.lhs) + ExprSize(expr.item.rhs)
    ELSE 1

\* C25: in a call of parse, whether it returns Ok or Err, the cursor
\* starts at 0 and moves only one token forward at a time, never past the
\* length of the slice, and no token is read out of bounds; after every
\* move prev is tokens[cursor - 1] (the cursor-th token of the sequence);
\* parse returns, and every node of the expression it returns has consumed
\* a token of its own.
CursorInvariant ==
    pc = "parsed" =>
        /\ result.done
        /\ ~parser.panicked
        /\ \A i \in 1..Len(parser.bumps) :
              /\ parser.bumps[i].cursor = i
              /\ parser.bumps[i].cursor <= NTokens
              /\ parser.bumps[i].prev = parser.tokens[parser.bumps[i].cursor]
        /\ parser.cursor = Len(parser.bumps)
        /\ parser.cursor <= NTokens
        /\ parser.cursor > 0 => parser.prev = parser.tokens[parser.cursor]
        /\ result.ok => ExprSize(result.expr) <= parser.cursor

\* A parse that has recovered from an error and gone on to the end of
\* a slice of four tokens or more, building an operator node on the way.
CursorInvariantWitness ==
    /\ pc = "parsed"
    /\ result.ok
    /\ diags # <<>>
    /\ NTokens >= 4
    /\ parser.cursor = NTokens
    /\ parser.prev = parser.tokens[NTokens]
    /\ ExprSize(result.expr) >= 2

(***************************************************************************)
(* Properties of adjacent elements of the scanner.                         *)
(***************************************************************************)
\* The character right after the i-th yielded element, NoChar at the end
\* of the source.  An element is yielded only over ASCII text, where byte
\* offsets count characters.
CharAfter(i) == CharAt(scanner.orig, out[i].span[2])

\* C23: maximal munch between adjacent elements: a Whitespace token is
\* never followed by a whitespace character, nor by a Whitespace token;
\* an Identifier or keyword token is never followed by a letter, a digit
\* or `_`; a Number token is never followed by a digit; a one-character
\* `!`, `=`, `>` or `<` token is never followed by `=`.
MaximalMunch ==
    pc = "scan" =>
        \A i \in 1..Len(out) :
            out[i].ok =>
                /\ out[i].kind = "Whitespace" =>
                      /\ CharAfter(i) \notin Spaces
                      /\ i < Len(out) => out[i + 1].kind # "Whitespace"
                /\ out[i].kind \in {w[2] : w \in ReservedWords} \cup {"Identifier"} =>
                      CharAfter(i) \notin IdentChars
                /\ out[i].kind = "Number" => CharAfter(i) \notin Digits
                /\ out[i].kind \in {"Bang", "Equal", "Greater", "Less"} =>
                      CharAfter(i) # "="

\* A token of each kind has been followed by a character that is not
\* part of it: an identifier by a space, the whitespace by a digit, the
\* number by `!`, and the `!` by the end of the source.
MaximalMunchWitness ==
    /\ pc = "scan"
    /\ \E i, j, k, n \in 1..Len(out) :
          /\ out[i].ok /\ out[i].kind = "Identifier" /\ CharAfter(i) \in Spaces
          /\ out[j].ok /\ out[j].kind = "Whitespace" /\ CharAfter(j) \in Digits
          /\ out[k].ok /\ out[k].kind = "Number" /\ CharAfter(k) = "!"
          /\ out[n].ok /\ out[n].kind = "Bang" /\ CharAfter(n) = NoChar

\* C24: a call of next at `//` yields one CommentLine token from the first
\* `/` up to, not including, the next newline, or to the end of the source,
\* so that the newline starts the next element, a Whitespace token; a call
\* at a `/` that no `/` follows yields a Slash token of one character; no
\* other element is a CommentLine or a Slash.
CommentLineToken ==
    pc = "scan" =>
        /\ ~(scanner.panicked /\ CharAt(scanner.orig, AttemptStart) = "/")
        /\ \A i \in 1..Len(out) :
              LET e == out[i]
                  src == scanner.orig
                  from == e.span[1]
                  stop == Until(src, from + 2, {"\n"})
              IN  IF CharAt(src, from) # "/"
                    THEN e.kind \notin {"CommentLine", "Slash"}
                  ELSE IF CharAt(src, from + 1) = "/"
                    THEN /\ e.ok /\ e.kind = "CommentLine"
                         /\ e.span = <<from, ByteOff(src, stop)>>
                         /\ i < Len(out) =>
                               /\ CharAt(src, stop) = "\n"
                               /\ out[i + 1].ok /\ out[i + 1].kind = "Whitespace"
                               /\ out[i + 1].span[1] = ByteOff(src, stop)
                  ELSE /\ e.ok /\ e.kind = "Slash"
                       /\ e.span = <<from, from + 1>>

(***************************************************************************)
(* Properties of Diagnostic::get_context.                                  *)
(***************************************************************************)
\* The length of the highlights of the first i context lines together.
RECURSIVE HighlightSum(_, _)
HighlightSum(ctx, i) ==
    IF i = 0 THEN 0
    ELSE HighlightSum(ctx, i - 1)
            + (IF ctx[i].highlight.some
                   THEN ctx[i].highlight.end - ctx[i].highlight.start ELSE 0)

\* The column of an offset: 1 plus the characters between the start of its
\* line and the offset.
RefColumn(source, start) ==
    1 + Cardinality({k \in 1..Len(source) :
                        /\ LineStart(source, start) <= ByteOff(source, k - 1)
                        /\ ByteOff(source, k) <= start})

\* C22: a context line is highlighted if and only if its number lies
\* between the line of the start of the span and the line of its end; the
\* highlight starts at column - 1 of the start of the span on the first of
\* those lines and at 0 on the others; its length is what is left of the
\* budget, at most the characters left on the line; the budget is the
\* length of the span minus the newlines in it, and the lengths of the
\* highlights sum to it.
HighlightsTouchedLines ==
    (pc = "returned" /\ spanCall.fn = "diag_get_context") =>
        LET source == spanCall.source
            span == spanCall.self
            ctx == spanCall.ret.ctx
            startLine == 1 + NewlinesBefore(source, span[1])
            endLine == 1 + NewlinesBefore(source, span[2])
            budget == SpanLen(span)
                        - (NewlinesBefore(source, span[2]) - NewlinesBefore(source, span[1]))
        IN  /\ ~spanCall.ret.panicked
            /\ \A i \in 1..Len(ctx) :
                  /\ ctx[i].highlight.some
                        <=> (startLine <= ctx[i].line /\ ctx[i].line <= endLine)
                  /\ ctx[i].highlight.some =>
                        LET start == IF ctx[i].line = startLine
                                         THEN RefColumn(source, span[1]) - 1 ELSE 0
                        IN  /\ ctx[i].highlight.start = start
                            /\ ctx[i].highlight.end - start
                                  = Min(budget - HighlightSum(ctx, i - 1),
                                        Len(RefLineText(source, ctx[i].line)) - start)
            /\ HighlightSum(ctx, Len(ctx)) = budget
====
